---- MODULE Spec2Model ----
(***************************************************************************)
(* Model of serve.py: a static file server for the directory dist on port  *)
(* 8080.  MyHTTPRequestHandler extends http.server's                        *)
(* SimpleHTTPRequestHandler, overriding end_headers (three CORS headers)    *)
(* and log_message ("[SERVER] " prefix); the main block binds a            *)
(* socketserver.TCPServer inside a with statement, serves forever, and     *)
(* turns KeyboardInterrupt into exit 0 and any other Exception into exit 1.*)
(*                                                                         *)
(* The inherited library methods (parse_request, send_error, send_head,    *)
(* serve_forever, ...) are modelled as CPython 3.11 executes them, since   *)
(* the two overrides only act through them.                                *)
(*                                                                         *)
(* Environment assumptions: writes to the console succeed; SIGINT is       *)
(* delivered to a process at most once, before it has started to unwind.   *)
(***************************************************************************)
EXTENDS Integers, Sequences, FiniteSets, TLC

\* Requests one instance accepts at most (caps the serve-forever loop).
MaxRequests == 2

\* serve.py:13
PORT == 8080

\* Two instances of the script are launched.
Procs == {1, 2}

(***************************************************************************)
(* The file system below the launch directory.                             *)
(***************************************************************************)
Nodes == {"dist", "dist/index.html", "dist/missing.txt", "dist/assets",
          "dist/assets/index.html", "dist/secret.txt"}

\* The directory layouts considered: dist/index.html may or may not exist;
\* dist/assets is a directory without index.html; dist/secret.txt exists
\* but cannot be opened; dist/missing.txt does not exist.
FileSystems ==
    { [n \in Nodes |->
         CASE n = "dist" -> "dir"
           [] n = "dist/assets" -> "dir"
           [] n = "dist/index.html" -> ix
           [] n = "dist/secret.txt" -> "unreadable"
           [] OTHER -> "none"] : ix \in {"file", "none"} }

\* os.path.join(path, "index.html") for the two directories.
IndexOf(node) == IF node = "dist" THEN "dist/index.html" ELSE "dist/assets/index.html"

\* The bytes of a file, and the generated listing of a directory.
FileBytes(node) == <<"bytes", node>>
Listing(node) == <<"listing", node>>
ErrorPage(code) == <<"errorpage", ToString(code)>>
NoBody == <<>>

(***************************************************************************)
(* Requests.  A request line is nwords blank-separated words: the command, *)
(* the target and, from the third word on, the last word as the version.   *)
(* A target is given by what translate_path makes of it: the node below    *)
(* dist and whether the URL path ends with a slash.                        *)
(***************************************************************************)
Commands == {"GET", "HEAD", "POST", "OPTIONS"}
Targets == { [node |-> "dist", slash |-> TRUE],
             [node |-> "dist/index.html", slash |-> FALSE],
             [node |-> "dist/index.html", slash |-> TRUE],
             [node |-> "dist/missing.txt", slash |-> FALSE],
             [node |-> "dist/assets", slash |-> FALSE],
             [node |-> "dist/assets", slash |-> TRUE],
             [node |-> "dist/secret.txt", slash |-> FALSE] }
Versions == {"HTTP/1.0", "HTTP/1.1", "HTTP/0.9", "HTTP/2.0", "FOO"}
\* If-Modified-Since: absent, not older than the file, or older than it.
IMS == {"absent", "fresh", "stale"}

NoTarget == [node |-> "dist", slash |-> TRUE]
Request(n, c, t, v, i, long) ==
    [nwords |-> n, command |-> c, target |-> t, version |-> v, ims |-> i,
     toolong |-> long]

\* The requests considered: GET of every target in every version, with and
\* without If-Modified-Since; the other commands on an existing file, a
\* missing file and a directory; request lines of 0, 1, 2 and 4 words; a
\* request line longer than 65536 bytes.
OtherTargets == { t \in Targets : t.slash = (t.node = "dist") /\ t.node # "dist/secret.txt" }
Requests ==
    { Request(3, "GET", t, v, "absent", FALSE) : t \in Targets, v \in Versions }
    \cup { Request(3, "GET", t, "HTTP/1.1", i, FALSE) : t \in Targets, i \in IMS }
    \cup { Request(3, c, t, v, "absent", FALSE) :
              c \in Commands, t \in OtherTargets, v \in Versions }
    \cup { Request(3, "HEAD", t, "HTTP/1.1", "fresh", FALSE) : t \in OtherTargets }
    \cup { Request(2, "GET", t, "", "absent", FALSE) : t \in Targets }
    \cup { Request(2, c, t, "", "absent", FALSE) : c \in Commands, t \in OtherTargets }
    \cup { Request(n, "GET", NoTarget, "HTTP/1.1", "absent", FALSE) : n \in {0, 1, 4} }
    \cup { Request(3, "GET", NoTarget, "HTTP/1.1", "absent", TRUE) }

\* The requests the two-instance specification draws from: one of each
\* kind of outcome (file, missing file, listing, unsupported method,
\* HTTP/0.9, malformed line, empty line).
CoreRequests ==
    { Request(3, "GET", [node |-> "dist/index.html", slash |-> FALSE], "HTTP/1.1", "absent", FALSE),
      Request(3, "GET", [node |-> "dist/missing.txt", slash |-> FALSE], "HTTP/1.1", "absent", FALSE),
      Request(3, "GET", [node |-> "dist/assets", slash |-> TRUE], "HTTP/1.1", "absent", FALSE),
      Request(3, "POST", [node |-> "dist/index.html", slash |-> FALSE], "HTTP/1.1", "absent", FALSE),
      Request(2, "GET", [node |-> "dist/index.html", slash |-> FALSE], "", "absent", FALSE),
      Request(1, "GET", NoTarget, "HTTP/1.1", "absent", FALSE),
      Request(0, "GET", NoTarget, "HTTP/1.1", "absent", FALSE) }

NoRequest == Request(0, "", NoTarget, "", "absent", FALSE)

\* The request line as it is logged.
TargetText(t) == IF t.slash THEN <<t.node, "/">> ELSE <<t.node>>
RequestLine(req) ==
    IF req.toolong THEN <<>>
    ELSE CASE req.nwords = 0 -> <<>>
           [] req.nwords = 1 -> <<req.command>>
           [] req.nwords = 2 -> <<req.command>> \o TargetText(req.target)
           [] req.nwords = 3 -> <<req.command>> \o TargetText(req.target) \o <<req.version>>
           [] OTHER -> <<req.command>> \o TargetText(req.target) \o <<"HTTP/1.1", req.version>>

\* parse_request's reading of the version word: <<major, minor>>, and
\* <<-1, -1>> where it raises ValueError.
VersionNumber(v) ==
    CASE v = "HTTP/1.0" -> <<1, 0>>
      [] v = "HTTP/1.1" -> <<1, 1>>
      [] v = "HTTP/0.9" -> <<0, 9>>
      [] v = "HTTP/2.0" -> <<2, 0>>
      [] OTHER -> <<-1, -1>>

(***************************************************************************)
(* The handler object while it serves one request: the version it answers  *)
(* in, the header buffer, what went to the client (head: the status line   *)
(* and headers; body) and the lines printed by log_message.                *)
(***************************************************************************)
NewHandler(req) ==
    [request_version |-> "HTTP/0.9", command |-> "", requestline |-> RequestLine(req),
     buf |-> <<>>, head |-> <<>>, body |-> NoBody, logs |-> <<>>]

\* BaseHTTPRequestHandler.send_response_only
send_response_only(h, code) ==
    IF h.request_version # "HTTP/0.9"
    THEN [h EXCEPT !.buf = Append(@, <<"STATUS", ToString(code)>>)]
    ELSE h

\* BaseHTTPRequestHandler.send_header
send_header(h, keyword, value) ==
    IF h.request_version # "HTTP/0.9"
    THEN [h EXCEPT !.buf = Append(@, <<keyword, value>>)]
    ELSE h

\* BaseHTTPRequestHandler.end_headers: flushes the buffer to the client.
base_end_headers(h) ==
    IF h.request_version # "HTTP/0.9"
    THEN [h EXCEPT !.head = @ \o h.buf, !.buf = <<>>]
    ELSE h

CorsOrigin == <<"Access-Control-Allow-Origin", "*">>
CorsMethods == <<"Access-Control-Allow-Methods", "GET, POST, OPTIONS">>
CorsHeaders == <<"Access-Control-Allow-Headers", "Content-Type">>

\* A slip: the third header is sent under the second header's name.
end_headers_mutant(h) ==
    base_end_headers(
        send_header(
            send_header(
                send_header(h, CorsOrigin[1], CorsOrigin[2]),
                CorsMethods[1], CorsMethods[2]),
            CorsMethods[1], CorsHeaders[2]))

\* MyHTTPRequestHandler.end_headers
end_headers(h) ==
    base_end_headers(
        send_header(
            send_header(
                send_header(h, CorsOrigin[1], CorsOrigin[2]),
                CorsMethods[1], CorsMethods[2]),
            CorsHeaders[1], CorsHeaders[2]))

LogPrefix == "[SERVER] "

\* A slip: the formatted message is printed without the prefix.
log_message_mutant(h, message) ==
    [h EXCEPT !.logs = Append(@, message)]

\* MyHTTPRequestHandler.log_message: message is format % args.
log_message(h, message) ==
    [h EXCEPT !.logs = Append(@, <<LogPrefix>> \o message)]

\* BaseHTTPRequestHandler.log_request: '"%s" %s %s'
log_request(h, code) == log_message(h, <<"request">> \o h.requestline \o <<ToString(code)>>)

\* BaseHTTPRequestHandler.log_error: "code %d, message %s"
log_error(h, code) == log_message(h, <<"code", ToString(code)>>)

\* BaseHTTPRequestHandler.send_response
send_response(h, code) ==
    send_header(
        send_header(send_response_only(log_request(h, code), code),
                    "Server", "SimpleHTTP"),
        "Date", "now")

\* BaseHTTPRequestHandler.send_error
send_error(h, code) ==
    LET h1 == send_header(send_response(log_error(h, code), code), "Connection", "close")
        withBody == code >= 200 /\ code \notin {204, 205, 304}
        h2 == IF withBody
              THEN send_header(send_header(h1, "Content-Type", "text/html;charset=utf-8"),
                               "Content-Length", "len")
              ELSE h1
        h3 == end_headers(h2)
    IN IF h.command # "HEAD" /\ withBody
       THEN [h3 EXCEPT !.body = ErrorPage(code)]
       ELSE h3

(***************************************************************************)
(* Request parsing and dispatch.  Each operator returns the handler after  *)
(* the call; parse_request also says whether it succeeded.                 *)
(***************************************************************************)
\* BaseHTTPRequestHandler.parse_request (the server's protocol_version is
\* HTTP/1.0, so neither keep-alive nor Expect: 100-continue applies).
parse_request(h, req) ==
    LET vn == VersionNumber(req.version)
        fail(code) == [ok |-> FALSE, h |-> send_error(h, code)]
    IN  IF req.nwords = 0 THEN [ok |-> FALSE, h |-> h]
        ELSE IF req.nwords >= 3 /\ vn = <<-1, -1>> THEN fail(400)
        ELSE IF req.nwords >= 3 /\ vn[1] >= 2 THEN fail(505)
        ELSE LET h1 == IF req.nwords >= 3
                       THEN [h EXCEPT !.request_version = req.version]
                       ELSE h
             IN  IF ~(2 <= req.nwords /\ req.nwords <= 3)
                 THEN [ok |-> FALSE, h |-> send_error(h1, 400)]
                 ELSE IF req.nwords = 2 /\ req.command # "GET"
                 THEN [ok |-> FALSE, h |-> send_error(h1, 400)]
                 ELSE [ok |-> TRUE, h |-> [h1 EXCEPT !.command = req.command]]

\* SimpleHTTPRequestHandler.list_directory
list_directory(h, node) ==
    LET h1 == send_header(send_header(send_response(h, 200),
                                      "Content-type", "text/html; charset=utf-8"),
                          "Content-Length", "len")
    IN  [h |-> end_headers(h1), f |-> Listing(node)]

\* SimpleHTTPRequestHandler.send_head: f is the open file (its bytes), or
\* NoBody for None.
send_head(h, req, files) ==
    LET node == req.target.node
        isdir == files[node] = "dir"
        index == IndexOf(node)
        useIndex == isdir /\ files[index] = "file"
        path == IF useIndex THEN index ELSE node
        \* the joined index path never ends with a slash
        endsWithSlash == IF useIndex THEN FALSE ELSE req.target.slash
    IN  IF isdir /\ ~req.target.slash
        THEN [h |-> end_headers(
                      send_header(send_header(send_response(h, 301), "Location", "slash"),
                                  "Content-Length", "0")),
              f |-> NoBody]
        ELSE IF isdir /\ ~useIndex THEN list_directory(h, node)
        ELSE IF endsWithSlash THEN [h |-> send_error(h, 404), f |-> NoBody]
        ELSE IF files[path] # "file" THEN [h |-> send_error(h, 404), f |-> NoBody]
        ELSE IF req.ims = "fresh"
        THEN [h |-> end_headers(send_response(h, 304)), f |-> NoBody]
        ELSE [h |-> end_headers(
                      send_header(
                        send_header(
                          send_header(send_response(h, 200), "Content-type", "guess"),
                          "Content-Length", "len"),
                        "Last-Modified", "mtime")),
              f |-> FileBytes(path)]

\* A slip: the file is opened and announced but never copied to the client.
do_GET_mutant(h, req, files) == send_head(h, req, files).h

\* SimpleHTTPRequestHandler.do_GET: copies the file to the client.
do_GET(h, req, files) ==
    LET r == send_head(h, req, files)
    IN  IF r.f # NoBody THEN [r.h EXCEPT !.body = r.f] ELSE r.h

\* SimpleHTTPRequestHandler.do_HEAD: headers only.
do_HEAD(h, req, files) == send_head(h, req, files).h

\* A slip: a do_POST that serves like do_HEAD has crept into the class.
HasMethod_mutant(command) == command \in {"GET", "HEAD", "POST"}

\* The methods MyHTTPRequestHandler has: do_GET and do_HEAD, both inherited.
HasMethod(command) == command \in {"GET", "HEAD"}

\* BaseHTTPRequestHandler.handle_one_request
handle_one_request(req, files) ==
    LET h0 == NewHandler(req)
    IN  IF req.toolong
        THEN send_error([h0 EXCEPT !.request_version = "", !.command = ""], 414)
        ELSE LET p == parse_request(h0, req)
             IN  IF ~p.ok THEN p.h
                 ELSE IF ~HasMethod(p.h.command) THEN send_error(p.h, 501)
                 ELSE IF p.h.command = "GET" THEN do_GET(p.h, req, files)
                 ELSE do_HEAD(p.h, req, files)

(***************************************************************************)
(* The processes.  pc follows serve.py: "start" is line 11, "bind" the     *)
(* TCPServer constructor of line 29, "banner" lines 30-33, "idle" and      *)
(* "handling" are inside serve_forever (line 34), "unwind" is the exit of  *)
(* the with statement, "except" the two handlers of lines 35-40.           *)
(***************************************************************************)
VARIABLES
    files,      \* the layout of dist
    hasDist,    \* hasDist[p]: the launch directory of p holds dist
    pc,         \* pc[p]
    exc,        \* exc[p]: the exception p is propagating
    sock,       \* sock[p]: p's listening socket: "none", "open", "closed"
    port,       \* the process bound to PORT, 0 when it is free
    conn,       \* conn[p]: the request of the connection p has accepted
    resp,       \* what the latest accepted connection has received
    logs,       \* the log lines printed for that connection
    served,     \* served[p]: connections p has finished with
    console,    \* console[p]: the other messages p has printed
    exitCode,   \* exitCode[p], -1 while p runs
    events      \* events[p]: what has happened to p (history)

vars == <<files, hasDist, pc, exc, sock, port, conn, resp, logs, served,
          console, exitCode, events>>

NoResponse == [by |-> 0, req |-> NoRequest, head |-> <<>>, body |-> NoBody,
               complete |-> FALSE]

Init ==
    /\ files \in FileSystems
    /\ hasDist \in [Procs -> BOOLEAN]
    /\ pc = [p \in Procs |-> "start"]
    /\ exc = [p \in Procs |-> "none"]
    /\ sock = [p \in Procs |-> "none"]
    /\ port = 0
    /\ conn = [p \in Procs |-> NoRequest]
    /\ resp = NoResponse
    /\ logs = <<>>
    /\ served = [p \in Procs |-> 0]
    /\ console = [p \in Procs |-> {}]
    /\ exitCode = [p \in Procs |-> -1]
    /\ events = [p \in Procs |-> {}]

\* A slip: the result of the chdir is ignored and the script goes on.
Chdir_mutant(p) ==
    /\ pc[p] = "start"
    /\ pc' = [pc EXCEPT ![p] = "bind"]
    /\ UNCHANGED <<files, hasDist, exc, sock, port, conn, resp, logs, served,
                   console, exitCode, events>>

\* Line 11, os.chdir('dist'), outside the try statement: a missing directory
\* is an uncaught FileNotFoundError (traceback, exit status 1).
Chdir(p) ==
    /\ pc[p] = "start"
    /\ IF hasDist[p]
       THEN /\ pc' = [pc EXCEPT ![p] = "bind"]
            /\ UNCHANGED <<console, exitCode, events>>
       ELSE /\ pc' = [pc EXCEPT ![p] = "exited"]
            /\ console' = [console EXCEPT ![p] = @ \cup {"traceback"}]
            /\ exitCode' = [exitCode EXCEPT ![p] = 1]
            /\ events' = [events EXCEPT ![p] = @ \cup {<<"exc", "chdir">>}]
    /\ UNCHANGED <<files, hasDist, exc, sock, port, conn, resp, logs, served>>

\* A slip: the port is bound without regard to who holds it
\* (as with SO_REUSEPORT).
Bind_mutant(p) ==
    /\ pc[p] = "bind"
    /\ port' = p
    /\ sock' = [sock EXCEPT ![p] = "open"]
    /\ pc' = [pc EXCEPT ![p] = "banner"]
    /\ UNCHANGED <<files, hasDist, exc, conn, resp, logs, served, console,
                   exitCode, events>>

\* Line 29, socketserver.TCPServer(("", PORT), ...): server_bind fails with
\* OSError when the port is taken; the constructor then closes its socket
\* and re-raises, and the with block is never entered.
Bind(p) ==
    /\ pc[p] = "bind"
    /\ IF port = 0
       THEN /\ port' = p
            /\ sock' = [sock EXCEPT ![p] = "open"]
            /\ pc' = [pc EXCEPT ![p] = "banner"]
            /\ UNCHANGED <<exc, events>>
       ELSE /\ sock' = [sock EXCEPT ![p] = "closed"]
            /\ exc' = [exc EXCEPT ![p] = "OSError"]
            /\ pc' = [pc EXCEPT ![p] = "except"]
            /\ events' = [events EXCEPT ![p] = @ \cup {<<"exc", "bind">>}]
            /\ UNCHANGED port
    /\ UNCHANGED <<files, hasDist, conn, resp, logs, served, console, exitCode>>

\* Lines 30-34: the four banner lines, then serve_forever is entered.
Banner(p) ==
    /\ pc[p] = "banner"
    /\ console' = [console EXCEPT ![p] = @ \cup {"banner"}]
    /\ pc' = [pc EXCEPT ![p] = "idle"]
    /\ UNCHANGED <<files, hasDist, exc, sock, port, conn, resp, logs, served,
                   exitCode, events>>

\* serve_forever: the selector reports a connection and get_request accepts
\* it.
Accept(p, req) ==
    /\ pc[p] = "idle"
    /\ served[p] < MaxRequests
    /\ conn' = [conn EXCEPT ![p] = req]
    /\ resp' = [NoResponse EXCEPT !.by = p, !.req = req]
    /\ logs' = <<>>
    /\ pc' = [pc EXCEPT ![p] = "handling"]
    /\ UNCHANGED <<files, hasDist, exc, sock, port, served, console, exitCode,
                   events>>

\* process_request: the handler is constructed, handles the one request of
\* the connection (protocol HTTP/1.0: no keep-alive) and the connection is
\* shut down.
HandleRequest(p) ==
    /\ pc[p] = "handling"
    /\ LET h == handle_one_request(conn[p], files)
       IN  /\ resp' = [by |-> p, req |-> conn[p], head |-> h.head, body |-> h.body,
                       complete |-> TRUE]
           /\ logs' = h.logs
    /\ conn' = [conn EXCEPT ![p] = NoRequest]
    /\ served' = [served EXCEPT ![p] = @ + 1]
    /\ pc' = [pc EXCEPT ![p] = "idle"]
    /\ UNCHANGED <<files, hasDist, exc, sock, port, console, exitCode, events>>

\* What the client has of the response when the exception strikes: nothing
\* (the request could not be read) or the head without the body (the copy
\* to the client broke).
Aborted(p, stage) ==
    LET h == handle_one_request(conn[p], files)
    IN  /\ resp' = [by |-> p, req |-> conn[p],
                    head |-> IF stage = "write" THEN h.head ELSE <<>>,
                    body |-> NoBody, complete |-> FALSE]
        /\ logs' = IF stage = "write" THEN h.logs ELSE <<>>

\* A slip: the exception of a request is not caught per request and leaves
\* serve_forever.
RequestException_mutant(p, stage) ==
    /\ pc[p] = "handling"
    /\ stage = "write" => handle_one_request(conn[p], files).body # NoBody
    /\ Aborted(p, stage)
    /\ conn' = [conn EXCEPT ![p] = NoRequest]
    /\ exc' = [exc EXCEPT ![p] = "Exception"]
    /\ pc' = [pc EXCEPT ![p] = "unwind"]
    /\ events' = [events EXCEPT ![p] = @ \cup {<<"exc", "request">>}]
    /\ UNCHANGED <<files, hasDist, sock, port, served, console, exitCode>>

\* An Exception inside process_request (the client resets the connection,
\* say): _handle_request_noblock catches it, handle_error prints the
\* traceback, the connection is shut down and serve_forever goes on.
RequestException(p, stage) ==
    /\ pc[p] = "handling"
    /\ stage = "write" => handle_one_request(conn[p], files).body # NoBody
    /\ Aborted(p, stage)
    /\ conn' = [conn EXCEPT ![p] = NoRequest]
    /\ console' = [console EXCEPT ![p] = @ \cup {"request_traceback"}]
    /\ served' = [served EXCEPT ![p] = @ + 1]
    /\ pc' = [pc EXCEPT ![p] = "idle"]
    /\ events' = [events EXCEPT ![p] = @ \cup {<<"exc", "request">>}]
    /\ UNCHANGED <<files, hasDist, exc, sock, port, exitCode>>

\* SIGINT: KeyboardInterrupt is raised where the main thread stands.  It is
\* no Exception, so the per-request handler lets it through.  Before the
\* try statement it is uncaught (traceback, death by SIGINT: status 130);
\* in the constructor the half-made socket is closed; inside the with block
\* the block is left.
Interrupt(p) ==
    /\ pc[p] \in {"start", "bind", "banner", "idle", "handling"}
    /\ events' = [events EXCEPT ![p] = @ \cup {<<"sigint", pc[p]>>}]
    /\ conn' = [conn EXCEPT ![p] = NoRequest]
    /\ CASE pc[p] = "start" ->
              /\ pc' = [pc EXCEPT ![p] = "exited"]
              /\ console' = [console EXCEPT ![p] = @ \cup {"traceback"}]
              /\ exitCode' = [exitCode EXCEPT ![p] = 130]
              /\ UNCHANGED <<exc, sock>>
         [] pc[p] = "bind" ->
              /\ pc' = [pc EXCEPT ![p] = "except"]
              /\ exc' = [exc EXCEPT ![p] = "KeyboardInterrupt"]
              /\ sock' = [sock EXCEPT ![p] = "closed"]
              /\ UNCHANGED <<console, exitCode>>
         [] OTHER ->
              /\ pc' = [pc EXCEPT ![p] = "unwind"]
              /\ exc' = [exc EXCEPT ![p] = "KeyboardInterrupt"]
              /\ UNCHANGED <<console, exitCode, sock>>
    /\ UNCHANGED <<files, hasDist, port, resp, logs, served>>

\* An Exception raised by serve_forever itself (the selector fails with
\* OSError): nothing inside the loop catches it.
LoopException(p) ==
    /\ pc[p] = "idle"
    /\ exc' = [exc EXCEPT ![p] = "OSError"]
    /\ pc' = [pc EXCEPT ![p] = "unwind"]
    /\ events' = [events EXCEPT ![p] = @ \cup {<<"exc", "loop">>}]
    /\ UNCHANGED <<files, hasDist, sock, port, conn, resp, logs, served, console,
                   exitCode>>

\* A slip: the server is not used as a context manager, nothing closes it.
Unwind_mutant(p) ==
    /\ pc[p] = "unwind"
    /\ pc' = [pc EXCEPT ![p] = "except"]
    /\ UNCHANGED <<files, hasDist, exc, sock, port, conn, resp, logs, served,
                   console, exitCode, events>>

\* The with statement of line 29 is left by an exception: __exit__ calls
\* server_close, which closes the listening socket.
Unwind(p) ==
    /\ pc[p] = "unwind"
    /\ sock' = [sock EXCEPT ![p] = "closed"]
    /\ port' = IF port = p THEN 0 ELSE port
    /\ pc' = [pc EXCEPT ![p] = "except"]
    /\ UNCHANGED <<files, hasDist, exc, conn, resp, logs, served, console,
                   exitCode, events>>

\* A slip: the interrupt is reported as a failure.
ExceptKeyboardInterrupt_mutant(p) ==
    /\ pc[p] = "except"
    /\ exc[p] = "KeyboardInterrupt"
    /\ console' = [console EXCEPT ![p] = @ \cup {"stopped"}]
    /\ exitCode' = [exitCode EXCEPT ![p] = 1]
    /\ pc' = [pc EXCEPT ![p] = "exited"]
    /\ exc' = [exc EXCEPT ![p] = "none"]
    /\ UNCHANGED <<files, hasDist, sock, port, conn, resp, logs, served, events>>

\* Lines 35-37: except KeyboardInterrupt: print the shutdown message,
\* sys.exit(0).
ExceptKeyboardInterrupt(p) ==
    /\ pc[p] = "except"
    /\ exc[p] = "KeyboardInterrupt"
    /\ console' = [console EXCEPT ![p] = @ \cup {"stopped"}]
    /\ exitCode' = [exitCode EXCEPT ![p] = 0]
    /\ pc' = [pc EXCEPT ![p] = "exited"]
    /\ exc' = [exc EXCEPT ![p] = "none"]
    /\ UNCHANGED <<files, hasDist, sock, port, conn, resp, logs, served, events>>

\* A slip: the error is printed but the status is that of a clean exit.
ExceptException_mutant(p) ==
    /\ pc[p] = "except"
    /\ exc[p] \notin {"none", "KeyboardInterrupt"}
    /\ console' = [console EXCEPT ![p] = @ \cup {"server_error"}]
    /\ exitCode' = [exitCode EXCEPT ![p] = 0]
    /\ pc' = [pc EXCEPT ![p] = "exited"]
    /\ exc' = [exc EXCEPT ![p] = "none"]
    /\ UNCHANGED <<files, hasDist, sock, port, conn, resp, logs, served, events>>

\* Lines 38-40: except Exception as e: print the error, sys.exit(1).
ExceptException(p) ==
    /\ pc[p] = "except"
    /\ exc[p] \notin {"none", "KeyboardInterrupt"}
    /\ console' = [console EXCEPT ![p] = @ \cup {"server_error"}]
    /\ exitCode' = [exitCode EXCEPT ![p] = 1]
    /\ pc' = [pc EXCEPT ![p] = "exited"]
    /\ exc' = [exc EXCEPT ![p] = "none"]
    /\ UNCHANGED <<files, hasDist, sock, port, conn, resp, logs, served, events>>

\* Two instances, launched in any order and interleaved.
Next ==
    \E p \in Procs :
        \/ Chdir(p)
        \/ Bind(p)
        \/ Banner(p)
        \/ \E req \in CoreRequests : Accept(p, req)
        \/ HandleRequest(p)
        \/ \E stage \in {"read", "write"} : RequestException(p, stage)
        \/ Interrupt(p)
        \/ LoopException(p)
        \/ Unwind(p)
        \/ ExceptKeyboardInterrupt(p)
        \/ ExceptException(p)

Spec == Init /\ [][Next]_vars

\* A process that is not blocked keeps executing: the steps that leave the
\* with block and run the except clauses are taken once they are reached.
FairSpec ==
    /\ Spec
    /\ \A p \in Procs :
         /\ WF_vars(Unwind(p))
         /\ WF_vars(ExceptKeyboardInterrupt(p))
         /\ WF_vars(ExceptException(p))

\* One instance alone, receiving every request of Requests.
HttpNext ==
    \/ Chdir(1)
    \/ Bind(1)
    \/ Banner(1)
    \/ \E req \in Requests : Accept(1, req)
    \/ HandleRequest(1)
    \/ \E stage \in {"read", "write"} : RequestException(1, stage)
    \/ Interrupt(1)
    \/ LoopException(1)
    \/ Unwind(1)
    \/ ExceptKeyboardInterrupt(1)
    \/ ExceptException(1)

HttpSpec == Init /\ [][HttpNext]_vars

(***************************************************************************)
(* Vocabulary of the properties.                                           *)
(***************************************************************************)
\* The status of a response head, "none" for a response without head.
Status(head) == IF head = <<>> THEN "none" ELSE head[1][2]

\* The three CORS headers occur in the head, each exactly once, and no
\* other header bears one of their names.
CorsOnce(head) ==
    \A c \in {CorsOrigin, CorsMethods, CorsHeaders} :
        /\ Cardinality({i \in DOMAIN head : head[i] = c}) = 1
        /\ Cardinality({i \in DOMAIN head : head[i][1] = c[1]}) = 1

\* Something was sent to the client.
Sent(r) == r.head # <<>> \/ r.body # NoBody

\* The request line carries the version HTTP/1.0 or HTTP/1.1 as its third
\* and last word.
Http1(req) == ~req.toolong /\ req.nwords = 3 /\ req.version \in {"HTTP/1.0", "HTTP/1.1"}

\* The request is answered in the HTTP/0.9 manner: its line has fewer than
\* three words, or its last word is not a version 1.x.
AnsweredAsHttp09(req) ==
    ~req.toolong /\ (req.nwords < 3 \/ req.version \notin {"HTTP/1.0", "HTTP/1.1"})

HasEvent(p, kind, where) == <<kind, where>> \in events[p]
SigintWhileServing(p) == HasEvent(p, "sigint", "idle") \/ HasEvent(p, "sigint", "handling")
Exited(p, code) == pc[p] = "exited" /\ exitCode[p] = code

ResolvedFile(t) ==
    IF files[t.node] = "file" /\ ~t.slash THEN t.node
    ELSE IF files[t.node] = "dir" /\ files[IndexOf(t.node)] = "file" THEN IndexOf(t.node)
    ELSE ""

ErrorCodes == {"400", "404", "414", "501", "505"}

\* C7 as stated: each handled request writes exactly one log line, and the
\* line starts with the prefix.
C7_OneLogLine ==
    resp.complete /\ resp.req.nwords > 0 =>
        Len(logs) = 1 /\ logs[1][1] = LogPrefix

\* C7 as amended: every log line starts with the prefix; each handled request
\* ends with one access line (request line and status), and an error
\* response is preceded by one more line, "code <status>, message ...".
C7_LogLines ==
    /\ \A i \in DOMAIN logs : logs[i][1] = LogPrefix
    /\ resp.complete /\ resp.req.nwords > 0 =>
         LET n == Len(logs)
             last == logs[n]
             code == last[Len(last)]
         IN  /\ n \in {1, 2}
             /\ last[2] = "request"
             /\ n = 2 <=> code \in ErrorCodes
             /\ n = 2 => logs[1] = <<LogPrefix, "code", code>>
             /\ resp.head # <<>> => code = Status(resp.head)

C7_Witness ==
    /\ resp.complete
    /\ Status(resp.head) = "404"
    /\ Len(logs) = 2
    /\ logs[2][1] = LogPrefix

C3_InterruptExitsZero ==
    \A p \in Procs :
        /\ [](SigintWhileServing(p) =>
                /\ exitCode[p] \in {-1, 0}
                /\ pc[p] = "exited" => exitCode[p] = 0 /\ "stopped" \in console[p])
        /\ (SigintWhileServing(p) ~> (Exited(p, 0) /\ "stopped" \in console[p]))

C3_Witness ==
    \E p \in Procs :
        /\ HasEvent(p, "sigint", "handling")
        /\ Exited(p, 0)
        /\ "stopped" \in console[p]
        /\ served[p] > 0

(***************************************************************************)
(* C4                                                                      *)
(***************************************************************************)
\* The step in which the bind of q fails.
BindFails(q) == ~HasEvent(q, "exc", "bind") /\ <<"exc", "bind">> \in events'[q]

\* C4: an instance whose bind fails because another instance listens on the
\* port never holds the port and never serves, prints the error and exits
\* with status 1; its failure leaves the listening instance as it was; and
\* at no time do two processes hold an open listening socket.
C4_SecondInstanceFails ==
    /\ [](/\ \A p, q \in Procs : sock[p] = "open" /\ sock[q] = "open" => p = q
          /\ \A p \in Procs : sock[p] = "open" <=> port = p
          /\ \A q \in Procs : HasEvent(q, "exc", "bind") =>
                /\ sock[q] = "closed" /\ served[q] = 0 /\ conn[q] = NoRequest
                /\ pc[q] \in {"except", "exited"}
                /\ exitCode[q] \in {-1, 1}
                /\ pc[q] = "exited" => exitCode[q] = 1 /\ "server_error" \in console[q])
    /\ [][\A q \in Procs : BindFails(q) =>
            /\ port \in Procs \ {q}
            /\ port' = port
            /\ sock'[port] = "open"
            /\ pc'[port] = pc[port] /\ conn'[port] = conn[port]
            /\ served'[port] = served[port] /\ exitCode'[port] = -1]_vars

C4_Witness ==
    \E p, q \in Procs :
        /\ p # q
        /\ HasEvent(q, "exc", "bind")
        /\ Exited(q, 1)
        /\ "server_error" \in console[q]
        /\ sock[p] = "open" /\ port = p
        /\ pc[p] = "idle" /\ served[p] > 0

(***************************************************************************)
(* C5                                                                      *)
(***************************************************************************)
\* C5: an instance launched where dist does not exist never creates a
\* socket, never holds the port and never serves; unless SIGINT kills it
\* before the chdir, it ends at the chdir, with the error printed (the
\* interpreter's traceback) and exit status 1.
C5_MissingDistIsFatal ==
    \A p \in Procs : ~hasDist[p] =>
        /\ sock[p] = "none" /\ port # p
        /\ served[p] = 0 /\ conn[p] = NoRequest /\ "banner" \notin console[p]
        /\ pc[p] \in {"start", "exited"}
        /\ pc[p] = "exited" /\ ~HasEvent(p, "sigint", "start") =>
             /\ HasEvent(p, "exc", "chdir")
             /\ exitCode[p] = 1
             /\ "traceback" \in console[p]

C5_Witness ==
    \E p \in Procs :
        /\ ~hasDist[p]
        /\ HasEvent(p, "exc", "chdir")
        /\ Exited(p, 1)
        /\ "traceback" \in console[p]

(***************************************************************************)
(* C6                                                                      *)
(***************************************************************************)
\* An error message is on the console of p.
ErrorPrinted(p) == "traceback" \in console[p] \/ "server_error" \in console[p]

\* C6 as stated: once an exception other than the interrupt is raised in a
\* process, during startup, in the serve loop or inside the handling of a
\* request, the process does not go on running, and it exits with status 1
\* with an error message printed.
C6_AnyExceptionIsFatal ==
    \A p \in Procs : (\E e \in events[p] : e[1] = "exc") =>
        /\ pc[p] \in {"unwind", "except", "exited"}
        /\ pc[p] = "exited" => exitCode[p] = 1 /\ ErrorPrinted(p)

\* An exception that is not raised inside the handling of a request.
FatalException(p) ==
    HasEvent(p, "exc", "chdir") \/ HasEvent(p, "exc", "bind") \/ HasEvent(p, "exc", "loop")

\* The step in which the handling of a request of p raises an exception.
RequestFails(p) == served'[p] > served[p] /\ <<"exc", "request">> \in events'[p]
                   /\ ~resp'.complete

\* C6 as amended: an exception other than the interrupt that is raised
\* during startup or by the serve loop itself ends the process: it does not
\* go on running, and it exits, with status 1 and an error message printed,
\* never with status 0.  An exception raised inside the handling of a
\* request is caught for that request: the traceback is printed and the
\* process goes on serving.
C6_EscapingExceptionIsFatal ==
    /\ \A p \in Procs :
        /\ [](FatalException(p) =>
                /\ pc[p] \in {"unwind", "except", "exited"}
                /\ exitCode[p] \in {-1, 1}
                /\ pc[p] = "exited" => exitCode[p] = 1 /\ ErrorPrinted(p))
        /\ (FatalException(p) ~> (Exited(p, 1) /\ ErrorPrinted(p)))
    /\ [][\A p \in Procs : RequestFails(p) =>
            /\ pc'[p] = "idle" /\ exitCode'[p] = -1 /\ sock'[p] = "open"
            /\ "request_traceback" \in console'[p]]_vars

C6_Witness ==
    \E p \in Procs :
        /\ HasEvent(p, "exc", "loop")
        /\ HasEvent(p, "exc", "request")
        /\ Exited(p, 1)
        /\ "server_error" \in console[p]

(***************************************************************************)
(* C8                                                                      *)
(***************************************************************************)
\* C8: a process that has left the with block, or has exited, has no open
\* listening socket and does not hold the port: the socket it had bound is
\* closed before the except clause runs, and a failed bind leaves none open.
C8_SocketClosedBeforeExit ==
    \A p \in Procs :
        /\ pc[p] \in {"except", "exited"} => sock[p] # "open" /\ port # p
        /\ pc[p] \in {"except", "exited"} /\ "banner" \in console[p] => sock[p] = "closed"
        /\ HasEvent(p, "exc", "bind") => sock[p] = "closed"

C8_Witness ==
    \E p \in Procs :
        /\ pc[p] = "except"
        /\ exc[p] = "KeyboardInterrupt"
        /\ "banner" \in console[p]
        /\ sock[p] = "closed"
        /\ port = 0

(***************************************************************************)
(* C9                                                                      *)
(***************************************************************************)
\* C9: a process that finishes with a request, whether with a response
\* (success or error) or with an exception, is back in the serve loop with
\* its socket open and the port held; and a process leaves the serve loop
\* only by SIGINT or by an exception of the loop itself.
C9_RequestErrorsAreNotFatal ==
    /\ [][\A p \in Procs : served'[p] > served[p] =>
            /\ pc'[p] = "idle" /\ exitCode'[p] = -1
            /\ sock'[p] = "open" /\ port' = p]_vars
    /\ [][\A p \in Procs :
            pc[p] \in {"idle", "handling"} /\ pc'[p] \notin {"idle", "handling"} =>
                /\ pc'[p] = "unwind"
                /\ \/ exc'[p] = "KeyboardInterrupt" /\ <<"sigint", pc[p]>> \in events'[p]
                   \/ exc'[p] = "OSError" /\ pc[p] = "idle"
                        /\ <<"exc", "loop">> \in events'[p]]_vars
    /\ [](\A p \in Procs : pc[p] \in {"idle", "handling"} => sock[p] = "open" /\ port = p)

C9_Witness ==
    \E p \in Procs :
        /\ pc[p] = "handling"
        /\ served[p] > 0
        /\ HasEvent(p, "exc", "request")
        /\ sock[p] = "open"
====
